---- MODULE Spec2Model ----
(***************************************************************************)
(* Model of the sticker recommendation handler (src/handlers/recommend.ts) *)
(* and of the chat request validator (src/utils/validation.ts).            *)
(*                                                                         *)
(* JavaScript values are modelled as records of one shape, so that any two *)
(* of them can be compared:                                                *)
(*   t  the type tag        n  a number, counted in halves (3 is n = 6,    *)
(*   s  a string, as a         2.5 is n = 5), or a boolean as 0 / 1        *)
(*      sequence of chars   a  an array of strings                         *)
(***************************************************************************)
EXTENDS Integers, Sequences, FiniteSets, TLC

VARIABLES pc, request, env, parsed, excludeIds, searchArgs, log, failure,
          responses, uncaught, chatBody, chatResult

vars == <<pc, request, env, parsed, excludeIds, searchArgs, log, failure,
          responses, uncaught, chatBody, chatResult>>

recommendVars == <<pc, request, env, parsed, excludeIds, searchArgs, log,
                   failure, responses, uncaught>>

chatVars == <<chatBody, chatResult>>

(***************************************************************************)
(* Bounds of the model and constants of the program.                       *)
(***************************************************************************)
MaxPromptLen == 2
MaxTopKLen == 2
MaxExclude == 11

DefaultTopK == 5
MinTopK == 1
MaxTopK == 20
MaxRecent == 10
MaxMessageLength == 2000

(***************************************************************************)
(* JavaScript values.                                                      *)
(***************************************************************************)
JSVal(t, n, s, a) == [t |-> t, n |-> n, s |-> s, a |-> a]

Undefined == JSVal("undefined", 0, <<>>, <<>>)
Null == JSVal("null", 0, <<>>, <<>>)
NaN == JSVal("NaN", 0, <<>>, <<>>)
Bool(b) == JSVal("boolean", IF b THEN 1 ELSE 0, <<>>, <<>>)
Halves(h) == JSVal("number", h, <<>>, <<>>)
Num(i) == Halves(2 * i)
Str(s) == JSVal("string", 0, s, <<>>)
Arr(a) == JSVal("array", 0, <<>>, a)
Obj == JSVal("object", 0, <<>>, <<>>)

\* ToBoolean: the falsy values are undefined, null, false, 0, NaN and "".
Truthy(v) ==
  CASE v.t = "undefined" -> FALSE
    [] v.t = "null" -> FALSE
    [] v.t = "NaN" -> FALSE
    [] v.t = "boolean" -> v.n = 1
    [] v.t = "number" -> v.n # 0
    [] v.t = "string" -> Len(v.s) > 0
    [] OTHER -> TRUE

IsWhite(c) == c = " "

Digits == <<"0", "1", "2", "3", "4", "5", "6", "7", "8", "9">>

IsDigit(c) == \E i \in 1..10 : Digits[i] = c

DigitVal(c) == (CHOOSE i \in 1..10 : Digits[i] = c) - 1

RECURSIVE TrimStart(_)
TrimStart(s) ==
  IF s # <<>> /\ IsWhite(Head(s)) THEN TrimStart(Tail(s)) ELSE s

RECURSIVE TrimEnd(_)
TrimEnd(s) ==
  IF s # <<>> /\ IsWhite(s[Len(s)]) THEN TrimEnd(SubSeq(s, 1, Len(s) - 1)) ELSE s

\* String.prototype.trim
Trim(s) == TrimEnd(TrimStart(s))

\* The longest prefix of s made of decimal digits.
RECURSIVE DigitPrefix(_)
DigitPrefix(s) ==
  IF s # <<>> /\ IsDigit(Head(s)) THEN <<Head(s)>> \o DigitPrefix(Tail(s)) ELSE <<>>

RECURSIVE DecimalValue(_)
DecimalValue(ds) ==
  IF ds = <<>> THEN 0
  ELSE 10 * DecimalValue(SubSeq(ds, 1, Len(ds) - 1)) + DigitVal(ds[Len(ds)])

IsSign(c) == c = "-" \/ c = "+"

\* parseInt(s, 10): leading white space is skipped, one sign is accepted, the
\* digits that follow are read up to the first other character; NaN without a
\* digit.
ParseInt(s) ==
  LET t == TrimStart(s)
      neg == t # <<>> /\ Head(t) = "-"
      body == IF t # <<>> /\ IsSign(Head(t)) THEN Tail(t) ELSE t
      ds == DigitPrefix(body)
  IN IF ds = <<>> THEN NaN
     ELSE Num(IF neg THEN 0 - DecimalValue(ds) ELSE DecimalValue(ds))

\* ToNumber of a string of the model's alphabet (digits, signs, blanks and
\* letters): blank is 0, an optionally signed run of digits is its value, any
\* other text is NaN.
StringToNumber(s) ==
  LET t == Trim(s)
      neg == t # <<>> /\ Head(t) = "-"
      body == IF t # <<>> /\ IsSign(Head(t)) THEN Tail(t) ELSE t
      ds == DigitPrefix(body)
  IN IF t = <<>> THEN Num(0)
     ELSE IF ds = <<>> \/ ds # body THEN NaN
     ELSE Num(IF neg THEN 0 - DecimalValue(ds) ELSE DecimalValue(ds))

\* Array.prototype.join
RECURSIVE Join(_, _)
Join(a, sep) ==
  IF a = <<>> THEN <<>>
  ELSE IF Len(a) = 1 THEN a[1]
  ELSE a[1] \o sep \o Join(Tail(a), sep)

\* ToNumber, as the relational operators apply it to their operand.
ToNumber(v) ==
  CASE v.t = "undefined" -> NaN
    [] v.t = "null" -> Num(0)
    [] v.t = "NaN" -> NaN
    [] v.t = "boolean" -> Num(v.n)
    [] v.t = "number" -> v
    [] v.t = "string" -> StringToNumber(v.s)
    [] v.t = "array" -> StringToNumber(Join(v.a, <<",">>))
    [] OTHER -> NaN

\* v > k and v <= k for an integer k; every comparison with NaN is false.
GreaterThan(v, k) == LET x == ToNumber(v) IN x.t = "number" /\ x.n > 2 * k
LessThan(v, k) == LET x == ToNumber(v) IN x.t = "number" /\ x.n < 2 * k
AtMost(v, k) == LET x == ToNumber(v) IN x.t = "number" /\ x.n <= 2 * k

IsNaN(v) == ToNumber(v).t = "NaN"

TypeOf(v) ==
  CASE v.t = "NaN" -> "number"
    [] v.t = "null" -> "object"
    [] v.t = "array" -> "object"
    [] OTHER -> v.t

IsArray(v) == v.t = "array"

(***************************************************************************)
(* Response envelopes.  keys is the set of top-level fields of the JSON    *)
(* body that is sent.                                                      *)
(***************************************************************************)
NoResponse ==
  [success |-> FALSE, status |-> 0, code |-> "", keys |-> {},
   stickers |-> <<>>, query |-> Undefined]

\* createErrorResponse(code, message, status = 400)
CreateErrorResponse(code, status) ==
  [success |-> FALSE, status |-> status, code |-> code,
   keys |-> {"success", "error"}, stickers |-> <<>>, query |-> Undefined]

CreateSuccessResponse(results, query) ==
  [success |-> TRUE, status |-> 200, code |-> "",
   keys |-> {"success", "stickers", "query"}, stickers |-> results,
   query |-> query]

(***************************************************************************)
(* What a parse function hands back: ParsedParams, an error Response, or   *)
(* an exception it lets escape.                                            *)
(***************************************************************************)
Params(prompt, topK, excludeRecent) ==
  [kind |-> "params", prompt |-> prompt, topK |-> topK,
   excludeRecent |-> excludeRecent, resp |-> NoResponse]

ErrorResult(resp) ==
  [kind |-> "response", prompt |-> Undefined, topK |-> Undefined,
   excludeRecent |-> Undefined, resp |-> resp]

Thrown ==
  [kind |-> "throw", prompt |-> Undefined, topK |-> Undefined,
   excludeRecent |-> Undefined, resp |-> NoResponse]

NotParsed ==
  [kind |-> "none", prompt |-> Undefined, topK |-> Undefined,
   excludeRecent |-> Undefined, resp |-> NoResponse]

\* String.prototype.split(","): the pieces between the commas, in order.
RECURSIVE SplitComma(_, _)
SplitComma(s, cur) ==
  IF s = <<>> THEN <<cur>>
  ELSE IF Head(s) = "," THEN <<cur>> \o SplitComma(Tail(s), <<>>)
  ELSE SplitComma(Tail(s), Append(cur, Head(s)))

RECURSIVE MapTrim(_)
MapTrim(a) == IF a = <<>> THEN <<>> ELSE <<Trim(Head(a))>> \o MapTrim(Tail(a))

RECURSIVE FilterNonEmpty(_)
FilterNonEmpty(a) ==
  IF a = <<>> THEN <<>>
  ELSE IF Len(Head(a)) > 0 THEN <<Head(a)>> \o FilterNonEmpty(Tail(a))
  ELSE FilterNonEmpty(Tail(a))

\* topK of the query form: parseInt of the parameter, 5 when it is missing,
\* empty, not a number or outside 1..20.
GetTopK(topKParam) ==
  LET topK == IF Truthy(topKParam) THEN ParseInt(topKParam.s) ELSE Num(DefaultTopK)
  IN IF IsNaN(topK) \/ LessThan(topK, MinTopK) \/ GreaterThan(topK, MaxTopK)
     THEN Num(DefaultTopK)
     ELSE topK

\* excludeRecent of the query form: comma-separated, trimmed, empties dropped.
GetExcludeRecent(excludeParam) ==
  IF Truthy(excludeParam)
  THEN Arr(FilterNonEmpty(MapTrim(SplitComma(excludeParam.s, <<>>))))
  ELSE Undefined

\* parseGetRequest; q holds what url.searchParams.get gives for each name:
\* null or a string.
ParseGetRequest(q) ==
  IF ~Truthy(q.prompt) \/ Len(Trim(q.prompt.s)) = 0
  THEN ErrorResult(CreateErrorResponse("INVALID_REQUEST", 400))
  ELSE Params(Str(Trim(q.prompt.s)), GetTopK(q.topK),
              GetExcludeRecent(q.excludeRecent))

\* body.name for the value request.json() produced: a property read of null
\* throws, of any other non-object gives undefined.
Throws(body) == body.kind = "null"

Prop(body, name) == IF body.kind = "object" THEN body[name] ELSE Undefined

\* topK of the JSON form.
PostTopK(topK) ==
  IF Truthy(topK) /\ GreaterThan(topK, 0) /\ AtMost(topK, MaxTopK)
  THEN topK
  ELSE Num(DefaultTopK)

\* the prompt check of the JSON form
PostPromptInvalid(prompt) ==
  \/ ~Truthy(prompt)
  \/ TypeOf(prompt) # "string"
  \/ Len(Trim(prompt.s)) = 0

\* parsePostRequest; body is the request body: text that is not JSON
\* (kind "invalid") or the JSON value it holds.
ParsePostRequest(body) ==
  IF body.kind = "invalid"
  THEN ErrorResult(CreateErrorResponse("INVALID_JSON", 400))
  ELSE IF Throws(body) THEN Thrown
  ELSE IF PostPromptInvalid(Prop(body, "prompt"))
  THEN ErrorResult(CreateErrorResponse("INVALID_REQUEST", 400))
  ELSE Params(Str(Trim(Prop(body, "prompt").s)),
              PostTopK(Prop(body, "topK")),
              Prop(body, "excludeRecent"))

(***************************************************************************)
(* The sticker catalog and the two services of services/sticker.           *)
(***************************************************************************)
Letters ==
  <<"a", "b", "c", "d", "e", "f", "g", "h", "i", "j", "k", "l", "m", "n",
    "o", "p", "q", "r">>

NumStickers == MaxExclude + 1

\* the identifier (assetbundleName) of the i-th sticker of the catalog
StickerId(i) == <<Letters[i]>>

CatalogIds == {StickerId(i) : i \in 1..NumStickers}

\* The sticker a message refers to: the first identifier found in its text,
\* <<>> when it holds none.
RECURSIVE StickerRefOf(_)
StickerRefOf(msg) ==
  IF msg = <<>> THEN <<>>
  ELSE IF <<Head(msg)>> \in CatalogIds THEN <<Head(msg)>>
  ELSE StickerRefOf(Tail(msg))

Member(x, seq) == \E i \in 1..Len(seq) : seq[i] = x

RECURSIVE ExtractFrom(_, _, _)
ExtractFrom(msgs, maxCount, acc) ==
  IF msgs = <<>> \/ Len(acc) >= maxCount THEN acc
  ELSE LET ref == StickerRefOf(Head(msgs))
       IN IF ref = <<>> \/ Member(ref, acc)
          THEN ExtractFrom(Tail(msgs), maxCount, acc)
          ELSE ExtractFrom(Tail(msgs), maxCount, Append(acc, ref))

\* extractRecentStickers(messages, maxCount): the distinct stickers the
\* messages refer to, in message order, at most maxCount of them.
ExtractRecentStickers(messages, maxCount) == ExtractFrom(messages, maxCount, <<>>)

\* What the vector store answers: the catalog by descending similarity, in
\* one of two orders, cut at the limit asked for.
Candidate(i, rank) ==
  [assetbundleName |-> StickerId(i), name |-> StickerId(i), score |-> 100 - rank]

Rankings ==
  { [r \in 1..NumStickers |-> Candidate(r, r)],
    [r \in 1..NumStickers |-> Candidate(NumStickers + 1 - r, r)] }

Min(x, y) == IF x < y THEN x ELSE y

\* the number of elements a count argument selects (slice, limit)
Count(v) ==
  LET x == ToNumber(v) IN IF x.t = "number" /\ x.n > 0 THEN x.n \div 2 ELSE 0

ExcludedList(ids) == IF IsArray(ids) THEN ids.a ELSE <<>>

RECURSIVE FilterExcluded(_, _)
FilterExcluded(cands, ex) ==
  IF cands = <<>> THEN <<>>
  ELSE IF Member(Head(cands).assetbundleName, ex)
  THEN FilterExcluded(Tail(cands), ex)
  ELSE <<Head(cands)>> \o FilterExcluded(Tail(cands), ex)

\* searchStickersWithScores after the store has answered: the store is asked
\* for topK + |excludeIds| neighbours, the excluded ones are dropped and the
\* first topK of the rest are kept in the store's order.
SearchResults(ranking, topK, ids) ==
  LET ex == ExcludedList(ids)
      limit == Min(Count(topK) + Len(ex), Len(ranking))
      kept == FilterExcluded(SubSeq(ranking, 1, limit), ex)
  IN SubSeq(kept, 1, Min(Count(topK), Len(kept)))

(***************************************************************************)
(* The requests the model sends.                                           *)
(***************************************************************************)
SeqsUpTo(alphabet, n) == UNION {[1..k -> alphabet] : k \in 0..n}

PromptStrings == SeqsUpTo({" ", "a"}, MaxPromptLen)

TopKStrings == SeqsUpTo({"0", "1", "2", "-", "a", " "}, MaxTopKLen)

\* the first n stickers of the catalog, as a list of identifiers
FirstIds(n) == [i \in 1..n |-> StickerId(i)]

ExcludeCounts == {0, 1, 2} \cup (MaxRecent..MaxExclude)

ExcludeLists ==
  {FirstIds(n) : n \in ExcludeCounts}
    \cup { << <<"a">>, <<"a">>, <<"b">> >>,
           << <<"x">>, <<"b">> >>,
           << <<"x", " ", "c">>, <<"x", "x">> >> }

QueryExcludes ==
  {Null, Str(<<>>), Str(<<" ", "a", ",", " ", ",", "b", ",", ",", "a", " ">>),
   Str(<<" ", ",">>)}
    \cup {Str(Join(l, <<",">>)) : l \in ExcludeLists}

NoQuery == [prompt |-> Null, topK |-> Null, excludeRecent |-> Null]

Queries ==
  [prompt : {Null} \cup {Str(s) : s \in PromptStrings},
   topK : {Null} \cup {Str(s) : s \in TopKStrings},
   excludeRecent : QueryExcludes]

Body(kind, prompt, topK, excludeRecent) ==
  [kind |-> kind, prompt |-> prompt, topK |-> topK,
   excludeRecent |-> excludeRecent]

\* a request without a body: reading it as JSON fails
NoBody == Body("invalid", Undefined, Undefined, Undefined)

BodyPrompts ==
  {Undefined, Null, Num(0), Num(1), Bool(TRUE), Obj, Arr(<< <<"a">> >>)}
    \cup {Str(s) : s \in PromptStrings}

BodyTopKs ==
  {Undefined, Null, Bool(TRUE), Bool(FALSE), Obj, Arr(<<>>),
   Arr(<< <<"3">> >>), Arr(<< <<"a">>, <<"b">> >>),
   Str(<<>>), Str(<<"7">>), Str(<<"a">>), Str(<<"2", "5">>)}
    \cup {Halves(h) : h \in {-2, 0, 1, 2, 5, 6, 40, 41, 42}}

BodyExcludes ==
  {Undefined, Null, Str(<<>>), Str(<<"a">>), Num(0), Num(3), Bool(TRUE), Obj}
    \cup {Arr(l) : l \in ExcludeLists}

Bodies ==
  {Body(k, Undefined, Undefined, Undefined) :
     k \in {"invalid", "null", "number", "string", "boolean", "array"}}
    \cup [kind : {"object"}, prompt : BodyPrompts, topK : BodyTopKs,
          excludeRecent : BodyExcludes]

Request(method, query, body) == [method |-> method, query |-> query, body |-> body]

SomeQueries ==
  {NoQuery, [prompt |-> Str(<<"a">>), topK |-> Str(<<"2">>),
             excludeRecent |-> Str(<<"a">>)]}

SomeBodies == {NoBody, Body("object", Str(<<"a">>), Num(2), Arr(FirstIds(1)))}

Requests ==
  {Request("GET", q, NoBody) : q \in Queries}
    \cup {Request("POST", NoQuery, b) : b \in Bodies}
    \cup {Request(m, q, b) :
            m \in {"DELETE", "PUT", "OPTIONS"}, q \in SomeQueries, b \in SomeBodies}

Envs == [VECTORIZE : BOOLEAN]

NoRequest == Request("", NoQuery, NoBody)

(***************************************************************************)
(* handleRecommend.  log records the work done for the current request:    *)
(* "parseQuery" (the URL's parameters are read), "readBody" (the body is   *)
(* read as JSON), "extract" (extractRecentStickers), "embed" (the embedder *)
(* is called) and "query" (the vector store is queried).  failure names    *)
(* the external capability that failed during the request, if one did.     *)
(***************************************************************************)
\* mutation: the availability check is left out
VectorizeMissing_never(e) == FALSE

\* if (!env.VECTORIZE)
VectorizeMissing(e) == ~e.VECTORIZE

\* mutation: every method but GET is handled as POST
MethodBranch_postElse(method) == IF method = "GET" THEN "get" ELSE "post"

\* the branch the request's method selects
MethodBranch(method) ==
  IF method = "GET" THEN "get" ELSE IF method = "POST" THEN "post" ELSE "other"

\* mutation: the parse error is not returned
ReturnsParseError_never(p) == FALSE

\* if (params instanceof Response) return params
ReturnsParseError(p) == p.kind = "response"

\* mutation: the exclusion is not handed on
ExcludeIdsOf_none(p) == Undefined

\* the excludeIds handed to the search
ExcludeIdsOf(p) ==
  IF Truthy(p.excludeRecent) /\ IsArray(p.excludeRecent)
  THEN Arr(ExtractRecentStickers(p.excludeRecent.a, MaxRecent))
  ELSE Undefined

\* mutation: the exception escapes the handler
OnThrow_rethrown == [resp |-> NoResponse, uncaught |-> TRUE]

\* the catch clause: what an exception thrown inside the try block becomes
OnThrow ==
  [resp |-> CreateErrorResponse("INTERNAL_ERROR", 500), uncaught |-> FALSE]

NoSearch == [called |-> FALSE, prompt |-> Undefined, topK |-> Undefined,
             excludeIds |-> Undefined]

SearchCall(p, ids) ==
  [called |-> TRUE, prompt |-> p.prompt, topK |-> p.topK, excludeIds |-> ids]

\* the handler returns resp
Return(resp) ==
  /\ pc' = "done"
  /\ responses' = Append(responses, resp)
  /\ uncaught' = FALSE

\* an exception is thrown inside the try block
Throw ==
  /\ pc' = "done"
  /\ responses' = IF OnThrow.uncaught THEN responses ELSE Append(responses, OnThrow.resp)
  /\ uncaught' = OnThrow.uncaught

\* handleRecommend up to its call of searchStickersWithScores
HandleRecommend(req, e) ==
  /\ pc = "idle"
  /\ request' = req
  /\ env' = e
  /\ UNCHANGED <<failure, chatVars>>
  /\ IF VectorizeMissing(e)
     THEN /\ Return(CreateErrorResponse("VECTORIZE_UNAVAILABLE", 503))
          /\ UNCHANGED <<parsed, excludeIds, searchArgs, log>>
     ELSE IF MethodBranch(req.method) = "other"
     THEN /\ Return(CreateErrorResponse("METHOD_NOT_ALLOWED", 405))
          /\ UNCHANGED <<parsed, excludeIds, searchArgs, log>>
     ELSE LET isGet == MethodBranch(req.method) = "get"
              p == IF isGet THEN ParseGetRequest(req.query)
                   ELSE ParsePostRequest(req.body)
              parseLog == IF isGet THEN {"parseQuery"} ELSE {"readBody"}
          IN /\ parsed' = p
             /\ IF p.kind = "throw"
                THEN /\ Throw
                     /\ log' = parseLog
                     /\ UNCHANGED <<excludeIds, searchArgs>>
                ELSE IF ReturnsParseError(p)
                THEN /\ Return(p.resp)
                     /\ log' = parseLog
                     /\ UNCHANGED <<excludeIds, searchArgs>>
                ELSE /\ excludeIds' = ExcludeIdsOf(p)
                     /\ searchArgs' = SearchCall(p, ExcludeIdsOf(p))
                     /\ log' = parseLog \cup
                               (IF IsArray(ExcludeIdsOf(p)) THEN {"extract"} ELSE {})
                     /\ pc' = "embed"
                     /\ UNCHANGED <<responses, uncaught>>

\* the embedder answers with the prompt's vector
EmbedReturns ==
  /\ pc = "embed"
  /\ pc' = "query"
  /\ log' = log \cup {"embed"}
  /\ UNCHANGED <<request, env, parsed, excludeIds, searchArgs, failure,
                 responses, uncaught, chatVars>>

\* the embedder fails: searchStickersWithScores rejects
EmbedFails ==
  /\ pc = "embed"
  /\ log' = log \cup {"embed"}
  /\ failure' = "embedder"
  /\ Throw
  /\ UNCHANGED <<request, env, parsed, excludeIds, searchArgs, chatVars>>

\* the vector store answers; the results are filtered, cut and returned
QueryReturns(ranking) ==
  /\ pc = "query"
  /\ log' = log \cup {"query"}
  /\ Return(CreateSuccessResponse(
              SearchResults(ranking, searchArgs.topK, searchArgs.excludeIds),
              parsed.prompt))
  /\ UNCHANGED <<request, env, parsed, excludeIds, searchArgs, failure, chatVars>>

\* the vector store fails: searchStickersWithScores rejects
QueryFails ==
  /\ pc = "query"
  /\ log' = log \cup {"query"}
  /\ failure' = "vectorStore"
  /\ Throw
  /\ UNCHANGED <<request, env, parsed, excludeIds, searchArgs, chatVars>>

\* the response is sent and the next request may come; nothing of a request
\* is kept
NextRequest ==
  /\ pc = "done"
  /\ pc' = "idle"
  /\ request' = NoRequest
  /\ env' = [VECTORIZE |-> TRUE]
  /\ parsed' = NotParsed
  /\ excludeIds' = Undefined
  /\ searchArgs' = NoSearch
  /\ log' = {}
  /\ failure' = "none"
  /\ responses' = <<>>
  /\ uncaught' = FALSE
  /\ UNCHANGED chatVars

(***************************************************************************)
(* validateChatRequest                                                     *)
(***************************************************************************)
ChatBody(kind, userId, message, history) ==
  [kind |-> kind, userId |-> userId, message |-> message, history |-> history]

NoChatBody == ChatBody("none", Undefined, Undefined, Undefined)

Result(valid, error) == [called |-> TRUE, threw |-> FALSE, valid |-> valid, error |-> error]

ChatThrew == [called |-> TRUE, threw |-> TRUE, valid |-> FALSE, error |-> ""]

NoResult == [called |-> FALSE, threw |-> FALSE, valid |-> FALSE, error |-> ""]

\* if (body.history && !Array.isArray(body.history))
HistoryRejected(history) == Truthy(history) /\ ~IsArray(history)

ValidateChatRequest(body) ==
  IF body.kind \in {"null", "undefined"} THEN ChatThrew
  ELSE LET userId == Prop(body, "userId")
           message == Prop(body, "message")
           history == Prop(body, "history")
       IN IF ~Truthy(userId) \/ TypeOf(userId) # "string"
          THEN Result(FALSE, "Missing or invalid userId")
          ELSE IF ~Truthy(message) \/ TypeOf(message) # "string"
          THEN Result(FALSE, "Missing or invalid message")
          ELSE IF Len(message.s) > MaxMessageLength
          THEN Result(FALSE, "Message too long (max 2000 characters)")
          ELSE IF HistoryRejected(history)
          THEN Result(FALSE, "History must be an array")
          ELSE Result(TRUE, "")

Repeat(c, n) == [i \in 1..n |-> c]

ChatUserIds ==
  {Undefined, Null, Num(0), Num(1), Bool(TRUE), Obj, Arr(<< <<"u">> >>),
   Str(<<>>), Str(<<"u">>), Str(<<" ">>)}

ChatMessages ==
  {Undefined, Null, Num(0), Num(5), Bool(TRUE), Obj, Arr(<< <<"m">> >>),
   Str(<<>>), Str(<<"m">>), Str(Repeat("m", MaxMessageLength - 1)),
   Str(Repeat("m", MaxMessageLength)), Str(Repeat("m", MaxMessageLength + 1))}

ChatHistories ==
  {Undefined, Null, Bool(FALSE), Bool(TRUE), Num(0), Num(1), Str(<<>>),
   Str(<<"h">>), Obj, Arr(<<>>), Arr(<< <<"h">> >>)}

ChatBodies ==
  {ChatBody(k, Undefined, Undefined, Undefined) :
     k \in {"null", "undefined", "number", "string", "array"}}
    \cup [kind : {"object"}, userId : ChatUserIds, message : ChatMessages,
          history : ChatHistories]

Validate(body) ==
  /\ chatBody' = body
  /\ chatResult' = ValidateChatRequest(body)
  /\ UNCHANGED recommendVars

NextChat ==
  /\ chatResult.called
  /\ chatBody' = NoChatBody
  /\ chatResult' = NoResult
  /\ UNCHANGED recommendVars

(***************************************************************************)
(* Specifications                                                          *)
(***************************************************************************)
Init ==
  /\ pc = "idle"
  /\ request = NoRequest
  /\ env = [VECTORIZE |-> TRUE]
  /\ parsed = NotParsed
  /\ excludeIds = Undefined
  /\ searchArgs = NoSearch
  /\ log = {}
  /\ failure = "none"
  /\ responses = <<>>
  /\ uncaught = FALSE
  /\ chatBody = NoChatBody
  /\ chatResult = NoResult

\* a request arrives and is handled
Receive ==
  /\ pc = "idle"
  /\ \E req \in Requests, e \in Envs : HandleRecommend(req, e)

Next ==
  \/ Receive
  \/ EmbedReturns
  \/ EmbedFails
  \/ \E ranking \in Rankings : QueryReturns(ranking)
  \/ QueryFails
  \/ NextRequest

Spec == Init /\ [][Next]_vars

\* a chat request arrives and is validated
ReceiveChat ==
  /\ ~chatResult.called
  /\ \E body \in ChatBodies : Validate(body)

ValidationNext ==
  \/ ReceiveChat
  \/ NextChat

SpecValidation == Init /\ [][ValidationNext]_vars

(***************************************************************************)
(* Properties                                                              *)
(***************************************************************************)
Done == pc = "done"

\* the response of the finished request
Final == IF responses = <<>> THEN NoResponse ELSE responses[Len(responses)]

IsGet == request.method = "GET"
IsPost == request.method = "POST"

Searched == log \cap {"embed", "query"} # {}

IsError(r, code, status) ==
  ~r.success /\ r.code = code /\ r.status = status /\ r.keys = {"success", "error"}

InRange(v) == v.t = "number" /\ v.n % 2 = 0 /\ (v.n \div 2) \in MinTopK..MaxTopK

\* C1: the topK handed to searchStickersWithScores is an integer in 1..20,
\* for both transports and every supplied topK.
C1_TopKIntegerInRange == searchArgs.called => InRange(searchArgs.topK)

\* the topK the request supplied: the query parameter or the body's field
SuppliedTopK == IF IsGet THEN request.query.topK ELSE Prop(request.body, "topK")

\* the supplied topK is missing, not numeric or outside [1,20]
TopKUnusable ==
  LET v == SuppliedTopK
  IN IF IsGet
     THEN \/ v.t = "null"
          \/ ParseInt(v.s).t = "NaN"
          \/ ParseInt(v.s).n < 2 * MinTopK
          \/ ParseInt(v.s).n > 2 * MaxTopK
     ELSE \/ v.t # "number"
          \/ v.n < 2 * MinTopK
          \/ v.n > 2 * MaxTopK

\* C2: whenever the supplied topK is missing, not numeric or outside [1,20],
\* the topK used for the search is exactly 5, for both transports.
C2_InvalidTopKBecomesDefault ==
  (searchArgs.called /\ TopKUnusable) => searchArgs.topK = Num(DefaultTopK)

\* C3: with env.VECTORIZE unavailable the handler answers
\* VECTORIZE_UNAVAILABLE with status 503 whatever the request is, and nothing
\* else has been done: no parsing, no extraction, no embedder call, no query.
C3_UnavailableFirst ==
  (pc # "idle" /\ ~env.VECTORIZE) =>
    /\ Done
    /\ Len(responses) = 1
    /\ IsError(responses[1], "VECTORIZE_UNAVAILABLE", 503)
    /\ log = {}
    /\ parsed = NotParsed
    /\ ~searchArgs.called

C3_Witness ==
  /\ Done
  /\ ~env.VECTORIZE
  /\ IsPost
  /\ request.body.kind = "object"
  /\ request.body.prompt = Str(<<"a">>)
  /\ IsArray(request.body.excludeRecent)
  /\ Final.code = "VECTORIZE_UNAVAILABLE"

\* the body's prompt is a string that is not empty once trimmed
BodyPromptGiven ==
  /\ request.body.kind = "object"
  /\ request.body.prompt.t = "string"
  /\ Trim(request.body.prompt.s) # <<>>

\* C4: in the JSON form, every body that parses as JSON and whose prompt is
\* not a non-empty string after trimming is answered with INVALID_REQUEST
\* (the vector-search capability being available).
C4_BadPromptIsInvalidRequest ==
  (Done /\ IsPost /\ env.VECTORIZE /\ request.body.kind # "invalid"
     /\ ~BodyPromptGiven)
    => Final.code = "INVALID_REQUEST"

\* C5: a JSON request whose excludeRecent is present but not an array is
\* rejected with INVALID_REQUEST and never answered with a success envelope
\* (stated for the requests during which no external capability fails).
C5_WrongTypeExcludeRejected ==
  (Done /\ IsPost /\ env.VECTORIZE /\ BodyPromptGiven /\ failure = "none"
     /\ request.body.excludeRecent.t \notin {"undefined", "array"})
    => (Final.code = "INVALID_REQUEST" /\ ~Final.success)

ValidationCodes == {"INVALID_REQUEST", "INVALID_JSON", "METHOD_NOT_ALLOWED"}

WellFormed(r) ==
  \/ /\ r.success
     /\ r.keys = {"success", "stickers", "query"}
     /\ r.status = 200
     /\ r.code = ""
     /\ r.query.t = "string"
  \/ /\ ~r.success
     /\ r.keys = {"success", "error"}
     /\ r.code # ""
     /\ r.status \in {400, 405, 500, 503}
     /\ r.stickers = <<>>
     /\ r.query = Undefined

\* C7: when the embedder or the vector store fails the handler answers
\* INTERNAL_ERROR with status 500; every request ends with exactly one
\* response, a complete success envelope or an error envelope, and no
\* exception leaves the handler.
C7_FailureIsInternalError ==
  /\ ~uncaught
  /\ ~Done => responses = <<>>
  /\ Done => (Len(responses) = 1 /\ WellFormed(responses[1]))
  /\ failure # "none" => (Done /\ IsError(Final, "INTERNAL_ERROR", 500))

C7_Witness ==
  /\ Done
  /\ failure = "vectorStore"
  /\ log = {"parseQuery", "extract", "embed", "query"}
  /\ IsError(Final, "INTERNAL_ERROR", 500)

OtherMethod == request.method \notin {"", "GET", "POST"}

Untouched == log = {} /\ parsed = NotParsed /\ ~searchArgs.called

\* C8 as stated: every request whose method is neither GET nor POST yields
\* METHOD_NOT_ALLOWED with status 405 and no further processing.
C8_OtherMethodAlways405 ==
  (Done /\ OtherMethod) =>
    (IsError(Final, "METHOD_NOT_ALLOWED", 405) /\ Untouched)

\* C8 amended: a request whose method is neither GET nor POST yields
\* METHOD_NOT_ALLOWED with status 405 when the vector-search capability is
\* available, and VECTORIZE_UNAVAILABLE with status 503 when it is not; in
\* both cases nothing is parsed, extracted, embedded or queried.
C8_OtherMethod405WhenAvailable ==
  (pc # "idle" /\ OtherMethod) =>
    /\ Done
    /\ Len(responses) = 1
    /\ Untouched
    /\ env.VECTORIZE => IsError(Final, "METHOD_NOT_ALLOWED", 405)
    /\ ~env.VECTORIZE => IsError(Final, "VECTORIZE_UNAVAILABLE", 503)

C8_Witness ==
  /\ Done
  /\ request.method = "DELETE"
  /\ request.query.prompt = Str(<<"a">>)
  /\ request.body.kind = "object"
  /\ env.VECTORIZE
  /\ IsError(Final, "METHOD_NOT_ALLOWED", 405)

\* the exclusion list the request supplied, as the parser hands it on
Supplied == IF IsArray(parsed.excludeRecent) THEN parsed.excludeRecent.a ELSE <<>>

Returned == {Final.stickers[i].assetbundleName : i \in 1..Len(Final.stickers)}

\* C9 as stated: no sticker of a successful response has an assetbundleName
\* that belongs to the exclusion set the request supplied.
C9_NoSuppliedIdReturned ==
  (Done /\ Final.success /\ IsArray(parsed.excludeRecent)) =>
    \A j \in 1..Len(Supplied) : Supplied[j] \notin Returned

\* the number of distinct stickers the first j supplied entries refer to
DistinctRefs(j) == Cardinality({StickerRefOf(Supplied[k]) : k \in 1..j} \ {<<>>})

\* C9 amended: no sticker of a successful response is among the first 10
\* distinct stickers the supplied excludeRecent refers to; stickers supplied
\* beyond the tenth are not excluded.
C9_FirstTenSuppliedNotReturned ==
  (Done /\ Final.success /\ IsArray(parsed.excludeRecent)) =>
    \A j \in 1..Len(Supplied) :
      (StickerRefOf(Supplied[j]) \in Returned) => DistinctRefs(j) > MaxRecent

C9_Witness ==
  /\ Done
  /\ Final.success
  /\ IsGet
  /\ Len(Supplied) = MaxRecent
  /\ DistinctRefs(MaxRecent) = MaxRecent
  /\ Len(Final.stickers) > 0

ChatUserIdOk == chatBody.userId.t = "string" /\ Len(chatBody.userId.s) > 0

ChatMessageOk ==
  /\ chatBody.message.t = "string"
  /\ Len(chatBody.message.s) \in 1..MaxMessageLength

\* C10: a body with a valid userId and message whose history is supplied
\* and is not an array is answered valid: false, "History must be an
\* array" (the part of the claim about supplied non-array histories).
C10_NonArrayHistoryRejected ==
  (chatResult.called /\ chatBody.kind = "object" /\ ChatUserIdOk /\ ChatMessageOk
     /\ chatBody.history.t \notin {"undefined", "null", "array"})
    => (~chatResult.threw /\ ~chatResult.valid
          /\ chatResult.error = "History must be an array")

====
